---- MODULE Spec2Model ----
(***************************************************************************)
(* Model of the adaptive preference-scoring engine: model.js               *)
(* (src/unnamed/part_000), the session glue of mainbackup.js (training     *)
(* triggers, interaction store, vocabulary, idle timer) and the content    *)
(* endpoint of server.js.                                                  *)
(*                                                                         *)
(* Numbers.  Reaction scores are kept in tenths (3.0 is 30).  Weights are  *)
(* exact fractions [num, den] with den > 0, compared by integer part and   *)
(* remainder.                                                              *)
(*                                                                         *)
(* Scheduling.  The code runs on the JavaScript event loop.  A call runs   *)
(* synchronously up to its first await; the continuation of an await is a  *)
(* microtask, and microtasks run first in, first out (variable mq).  New   *)
(* calls of model.js may be made at any moment by caller code; the         *)
(* triggers of mainbackup.js, the arrival of a content batch and the       *)
(* completion of tfModel.fit are tasks, run only when no microtask is      *)
(* pending.                                                                *)
(***************************************************************************)
EXTENDS Integers, Sequences, FiniteSets, Bags, TLC

VARIABLES
    tfModel,              \* the classifier object: [status, dim]
    modelTrained,
    modelTraining,
    modelTrainingPromise, \* "null", or the call that created the promise
    MODEL_TOPICS,
    MODEL_HASHTAGS,
    interactions,         \* the interaction store of mainbackup.js: as Object.values
                          \* lists it (SpecMain), by key (SpecStore)
    pc,                   \* position of every call
    frame,                \* the locals of every call
    mq,                   \* microtask queue: calls whose await has settled
    waiters,              \* per training promise, the calls awaiting it
    fitOn,                \* the fit of a call runs on the current tfModel object
    last,                 \* the step just taken and what it returned
    fitCount,             \* tfModel.fit calls started (mainbackup.js)
    rebuildCount,         \* models built by trainModel's loadModel(true) (mainbackup.js)
    overlapped,           \* a trigger called trainModel while another call was unfinished
    scIn,                 \* Rule-Based Scorer: blocks of the array being assembled
    scOut,                \* Rule-Based Scorer: what the last call computed
    spIn,                 \* Natural-Break Selector: sorted list being assembled
    spOut,                \* Natural-Break Selector: last call
    spPrev,               \* Natural-Break Selector: the call before the last
    srvReq,               \* GET /api/posts: the request received
    srvRes,               \* GET /api/posts: what the handler answered
    shown,                \* mainbackup.js: position in Feed of the item on display, 0 for none
    lastViewedPostId,
    postViewStartTime,
    clock,                \* Date.now()
    displayed,            \* per position in Feed, the time the item has been on display
    idleTimeout,          \* mainbackup.js: handle of the timer armed last, 0 for null
    pendingTimers,        \* mainbackup.js: the timers armed and neither fired nor cleared
    lastActivity          \* time of the last recordInteraction or showPost call

modelVars == <<tfModel, modelTrained, modelTraining, modelTrainingPromise>>
vocabVars == <<MODEL_TOPICS, MODEL_HASHTAGS>>
procVars == <<interactions, pc, frame, mq, waiters, fitOn, last>>
countVars == <<fitCount, rebuildCount, overlapped>>
scorerVars == <<scIn, scOut>>
splitVars == <<spIn, spOut, spPrev>>
serverVars == <<srvReq, srvRes>>
viewVars == <<shown, lastViewedPostId, postViewStartTime, clock, displayed>>
idleVars == <<idleTimeout, pendingTimers, lastActivity>>
vars == <<modelVars, vocabVars, procVars, countVars, scorerVars, splitVars,
          serverVars, viewVars, idleVars>>
nonSplitVars == <<modelVars, vocabVars, procVars, countVars, scorerVars,
                  serverVars, viewVars, idleVars>>
nonScorerVars == <<modelVars, vocabVars, procVars, countVars, splitVars,
                   serverVars, viewVars, idleVars>>

---------------------------------------------------------------------------
(* Bounds of the model *)

MaxTopics == 3        \* names in the topic universe
MaxHashtags == 1      \* names in the hashtag universe
MaxItems == 5         \* longest list given to findNaturalSplit
MaxBlocks == 2        \* blocks of records in a scorer input
MaxCalls == 1         \* trainModel calls per retrain trigger (mainbackup.js)
MaxClock == 5         \* the session's events happen at times 1 .. MaxClock - 1

TopicNames == <<"A", "B", "C", "D", "E", "F", "G", "H">>
HashtagNames == <<"h1", "h2", "h3">>
Topics == {TopicNames[i] : i \in 1..MaxTopics}
Hashtags == {HashtagNames[i] : i \in 1..MaxHashtags}

---------------------------------------------------------------------------
(* Program constants *)

WEIGHT_LIKED == 30
WEIGHT_INTERESTED == 20
WEIGHT_NOT_INTERESTED == -40
WEIGHT_COMMENTED == 15
MIN_INTERACTIONS == 10
DEFAULT_DURATION == 10000
TOP_N == 5
SCAN_LIMIT == 10

---------------------------------------------------------------------------
(* Exact fractions *)

Frac(n, d) == [num |-> n, den |-> d]
\* an/ad < bn/bd for positive ad and bd, compared by integer part and then
\* by the reciprocals of the fractional parts, so that no product is formed
RECURSIVE LessRatio(_, _, _, _)
LessRatio(an, ad, bn, bd) ==
    LET qa == an \div ad
        qb == bn \div bd
        ra == an % ad
        rb == bn % bd
    IN IF qa # qb THEN qa < qb
       ELSE IF rb = 0 THEN FALSE
       ELSE IF ra = 0 THEN TRUE
       ELSE LessRatio(bd, rb, ad, ra)

FLess(a, b) == LessRatio(a.num, a.den, b.num, b.den)
FSub(a, b) == Frac(a.num * b.den - b.num * a.den, a.den * b.den)
FMax(a, b) == IF FLess(a, b) THEN b ELSE a
Min(a, b) == IF a < b THEN a ELSE b
Max(a, b) == IF a < b THEN b ELSE a

Tenth == Frac(1, 10)
Zero == Frac(0, 1)

\* x / w > c as JavaScript evaluates it: a division by zero gives Infinity
\* or NaN, a negative divisor turns the comparison around
QuotientExceeds(x, w, c) ==
    IF w.num > 0 THEN x.num * w.den * c.den > c.num * x.den * w.num
    ELSE IF w.num < 0 THEN x.num * w.den * c.den < c.num * x.den * w.num
    ELSE x.num > 0

RECURSIVE SumSeq(_)
SumSeq(s) == IF s = <<>> THEN 0 ELSE Head(s) + SumSeq(Tail(s))

Repeat(r, n) == [i \in 1..n |-> r]

---------------------------------------------------------------------------
(* Interaction records are JavaScript objects: a field may be absent *)

Flag(inter, f) == f \in DOMAIN inter /\ inter[f]
ArrayOf(inter, f) == IF f \in DOMAIN inter THEN inter[f] ELSE <<>>
Occurrences(arr, x) == Cardinality({i \in DOMAIN arr : arr[i] = x})

\* inter.duration || 10000
DurationOf(inter) ==
    IF "duration" \in DOMAIN inter /\ inter.duration # 0
    THEN inter.duration ELSE DEFAULT_DURATION

FlagScore(inter) ==
      (IF Flag(inter, "liked") THEN WEIGHT_LIKED ELSE 0)
    + (IF Flag(inter, "interested") THEN WEIGHT_INTERESTED ELSE 0)
    + (IF Flag(inter, "not_interested") THEN WEIGHT_NOT_INTERESTED ELSE 0)
    + (IF Flag(inter, "commented") THEN WEIGHT_COMMENTED ELSE 0)

\* timeRatio > 0.7 adds 1, timeRatio < 0.2 subtracts 1; an absent
\* timeSpentMs makes timeRatio NaN and both comparisons false
TimeBonus(inter) ==
    IF "timeSpentMs" \notin DOMAIN inter THEN 0
    ELSE IF inter.timeSpentMs * 10 > 7 * DurationOf(inter) THEN 10
    ELSE IF inter.timeSpentMs * 10 < 2 * DurationOf(inter) THEN -10
    ELSE 0

\* the scalar `score` of one record in analyzeWithoutModel, in tenths
ReactionScore(inter) == FlagScore(inter) + TimeBonus(inter)

---------------------------------------------------------------------------
(* Selection helpers shared by both analysis paths *)

\* item.weight > 0.1
AboveThreshold(w) == FLess(Tenth, w)

\* Array.prototype.sort((a, b) => b.weight - a.weight): stable, descending
RECURSIVE InsertDesc(_, _)
InsertDesc(sorted, e) ==
    IF sorted = <<>> THEN <<e>>
    ELSE IF FLess(Head(sorted).weight, e.weight) THEN <<e>> \o sorted
    ELSE <<Head(sorted)>> \o InsertDesc(Tail(sorted), e)

RECURSIVE SortDesc(_)
SortDesc(s) ==
    IF s = <<>> THEN <<>>
    ELSE InsertDesc(SortDesc(SubSeq(s, 1, Len(s) - 1)), s[Len(s)])

\* Array.prototype.slice(0, n) keeps the first n elements, and for a
\* negative n all but the last -n
SliceCount(len, n) == IF n >= 0 THEN Min(n, len) ELSE Max(len + n, 0)
Slice(s, n) == SubSeq(s, 1, SliceCount(Len(s), n))

EmptyInterestSet == [topics |-> <<>>, hashtags |-> <<>>]

---------------------------------------------------------------------------
(* Rule-Based Scorer: analyzeWithoutModel *)

PositivePart(score) == IF score > 0 THEN score ELSE 0
\* the same accumulation with Math.abs forgotten
NegativePartSigned(score) == IF score < 0 THEN score ELSE 0
\* negative += Math.abs(score), when score < 0
NegativePart(score) == IF score < 0 THEN 0 - score ELSE 0

\* {positive, negative, count} accumulated for one vocabulary name over the
\* records whose array `field` lists it
ScoreData(arr, field, name) ==
    LET occ(i) == Occurrences(ArrayOf(arr[i], field), name)
        sc(i) == ReactionScore(arr[i])
    IN [positive |-> SumSeq([i \in DOMAIN arr |-> PositivePart(sc(i)) * occ(i)]),
        negative |-> SumSeq([i \in DOMAIN arr |-> NegativePart(sc(i)) * occ(i)]),
        count |-> SumSeq([i \in DOMAIN arr |-> occ(i)])]

\* avg * 0.6 + (total / Math.max(1, interactions.length)) * 0.4, where the
\* sums are in tenths: total * (6 n + 4 count) / (100 count n)
CompositeWeight(data, length) ==
    LET total == data.positive - data.negative
        n == Max(1, length)
    IN IF data.count = 0 THEN Zero
       ELSE Frac(total * (6 * n + 4 * data.count), 100 * data.count * n)

\* Object.entries(...).map(...): one entry per vocabulary name, in vocabulary order
ScoredEntries(arr, field, vocabulary) ==
    [k \in DOMAIN vocabulary |->
        [name |-> vocabulary[k],
         weight |-> CompositeWeight(ScoreData(arr, field, vocabulary[k]),
                                    Len(arr))]]

IsNonZero(e) == e.weight.num # 0
\* the filter with the threshold left out
IsPositive(e) == FLess(Zero, e.weight)
IsAbove(e) == AboveThreshold(e.weight)

\* .filter(weight !== 0).sort(descending), then .filter(weight > 0.1).slice(0, 5)
RuleSelect(entries) == Slice(SelectSeq(SortDesc(SelectSeq(entries, IsNonZero)), IsAbove), TOP_N)

analyzeWithoutModel(arr) ==
    [topics |-> RuleSelect(ScoredEntries(arr, "topics", MODEL_TOPICS)),
     hashtags |-> RuleSelect(ScoredEntries(arr, "hashtags", MODEL_HASHTAGS))]

---------------------------------------------------------------------------
(* Natural-Break Selector: findNaturalSplit.  Positions are JavaScript's,  *)
(* counted from 0.                                                         *)

At(items, i) == items[i + 1]

RECURSIVE SplitScan(_, _, _, _, _, _)
SplitScan(items, scoreKey, i, maxGap, splitIdx, gapThreshold) ==
    IF i >= Min(Len(items) - 1, SCAN_LIMIT) THEN splitIdx
    ELSE LET gap == FSub(At(items, i)[scoreKey], At(items, i + 1)[scoreKey])
             here == At(items, i)[scoreKey]
         IN IF (FLess(maxGap, gap) /\ FLess(gapThreshold, gap))
                \/ QuotientExceeds(gap, here, Frac(4, 10))
            THEN IF QuotientExceeds(gap, here, Frac(6, 10)) THEN i + 1
                 ELSE SplitScan(items, scoreKey, i + 1, gap, i + 1, gapThreshold)
            ELSE SplitScan(items, scoreKey, i + 1, maxGap, splitIdx, gapThreshold)

\* Math.max(0.1, items[0][scoreKey] * 0.25)
GapThreshold(items, scoreKey) ==
    LET first == At(items, 0)[scoreKey]
    IN FMax(Tenth, Frac(first.num, first.den * 4))

\* the length test off by one
IsShortListUpTo4(items) == Len(items) <= 4
IsShortList(items) == Len(items) <= 3

findNaturalSplit(items, minThreshold, scoreKey) ==
    IF IsShortList(items) THEN Len(items)
    ELSE LET splitIdx == SplitScan(items, scoreKey, 0, Zero, Len(items),
                                   GapThreshold(items, scoreKey))
         IN IF splitIdx = Len(items)
            THEN Min(TOP_N, Cardinality({i \in DOMAIN items :
                                            FLess(minThreshold, items[i][scoreKey])}))
            ELSE splitIdx

\* sort, findNaturalSplit(scored, 0.1, 'weight'), slice(0, splitIdx), filter(weight > 0.1)
ClassifierSelect(scored) ==
    LET sorted == SortDesc(scored)
    IN SelectSeq(Slice(sorted, findNaturalSplit(sorted, Tenth, "weight")), IsAbove)

---------------------------------------------------------------------------
(* Initial values of the parts of the state *)

NullModel == [status |-> "null", dim |-> 0]
NoStep == [op |-> "none"]
NoCall == [called |-> FALSE]

InitModel ==
    /\ tfModel = NullModel
    /\ modelTrained = FALSE
    /\ modelTraining = FALSE
    /\ modelTrainingPromise = "null"

InitVocab ==
    /\ MODEL_TOPICS = <<>>
    /\ MODEL_HASHTAGS = <<>>

InitCounts ==
    /\ fitCount = 0
    /\ rebuildCount = 0
    /\ overlapped = FALSE

InitScorer ==
    /\ scIn = <<>>
    /\ scOut = NoCall

InitSplit ==
    /\ spIn = <<>>
    /\ spOut = NoCall
    /\ spPrev = NoCall

NoRequest == [received |-> FALSE]
NoResponse == [sent |-> FALSE]

InitServer ==
    /\ srvReq = NoRequest
    /\ srvRes = NoResponse

\* line 171 of mainbackup.js: no timer has been armed
InitIdle ==
    /\ idleTimeout = 0
    /\ pendingTimers = {}
    /\ lastActivity = 0

\* lines 285-286 of mainbackup.js; the page is loaded at time 1
InitView ==
    /\ shown = 0
    /\ lastViewedPostId = "null"
    /\ postViewStartTime = 0
    /\ clock = 1
    /\ displayed = <<0, 0, 0, 0>>

---------------------------------------------------------------------------
(* The Natural-Break Selector on its own: sorted lists are assembled entry *)
(* by entry and findNaturalSplit is called on them.                        *)

\* weights offered to the selector, in hundredths
SplitWeights == {90, 85, 50, 30, 28, 5, -20}

SplitPush(w) ==
    /\ Len(spIn) < MaxItems
    /\ spIn # <<>> => ~FLess(spIn[Len(spIn)].weight, Frac(w, 100))
    /\ spIn' = Append(spIn, [name |-> TopicNames[Len(spIn) + 1], weight |-> Frac(w, 100)])
    /\ UNCHANGED <<spOut, spPrev>>
    /\ UNCHANGED nonSplitVars

SplitCall ==
    /\ spPrev' = spOut
    /\ spOut' = [called |-> TRUE, items |-> spIn,
                 splitIdx |-> findNaturalSplit(spIn, Tenth, "weight")]
    /\ UNCHANGED spIn
    /\ UNCHANGED nonSplitVars

SplitClear ==
    /\ spIn # <<>>
    /\ spIn' = <<>>
    /\ spOut' = NoCall
    /\ spPrev' = NoCall
    /\ UNCHANGED nonSplitVars

SplitInit ==
    /\ InitModel /\ InitVocab /\ InitCounts /\ InitScorer /\ InitSplit
    /\ InitServer /\ InitView /\ InitIdle
    /\ interactions = <<>> /\ pc = <<>> /\ frame = <<>> /\ mq = <<>> /\ waiters = <<>> /\ fitOn = <<>>
    /\ last = NoStep

SplitNext ==
    \/ \E w \in SplitWeights : SplitPush(w)
    \/ SplitCall
    \/ SplitClear

SpecSplit == SplitInit /\ [][SplitNext]_vars

---------------------------------------------------------------------------
(* The Rule-Based Scorer on its own: an interactions array is assembled in *)
(* blocks of equal records and analyzeWithoutModel is called on it.        *)

ScorerTopics == {"A", "B"}
BlockSizes == {1, MIN_INTERACTIONS, MIN_INTERACTIONS + 1}

\* the array a sequence of blocks [rec, n] stands for
RECURSIVE Flatten(_)
Flatten(blocks) ==
    IF blocks = <<>> THEN <<>>
    ELSE Repeat(Head(blocks).rec, Head(blocks).n) \o Flatten(Tail(blocks))

\* flags and viewing time of the records offered to the scorer
Reactions ==
    { [liked |-> TRUE],
      [liked |-> TRUE, timeSpentMs |-> 1000, duration |-> 10000],
      [not_interested |-> TRUE],
      [not_interested |-> TRUE, timeSpentMs |-> 9000],
      [liked |-> FALSE, timeSpentMs |-> 9000],
      [liked |-> TRUE, commented |-> TRUE, timeSpentMs |-> 0] }

\* records on topic A carry a hashtag, records on topic B have no hashtags field
OnTopic(r, t) ==
    IF t = "A" THEN r @@ [topics |-> <<t>>, hashtags |-> <<"h1">>]
    ELSE r @@ [topics |-> <<t>>]

ScorerRecords == {OnTopic(r, t) : r \in Reactions, t \in ScorerTopics}

ScorerAdd(rec, n) ==
    /\ Len(scIn) < MaxBlocks
    /\ scIn' = Append(scIn, [rec |-> rec, n |-> n])
    /\ scOut' = NoCall
    /\ UNCHANGED nonScorerVars

ScorerCall ==
    /\ LET arr == Flatten(scIn)
       IN scOut' = [called |-> TRUE,
                    given |-> arr,
                    scores |-> [i \in DOMAIN arr |-> ReactionScore(arr[i])],
                    weights |-> ScoredEntries(arr, "topics", MODEL_TOPICS),
                    result |-> analyzeWithoutModel(arr)]
    /\ UNCHANGED scIn
    /\ UNCHANGED nonScorerVars

ScorerInit ==
    /\ InitModel /\ InitCounts /\ InitScorer /\ InitSplit
    /\ InitServer /\ InitView /\ InitIdle
    /\ MODEL_TOPICS = <<"B", "C", "A">>
    /\ MODEL_HASHTAGS = <<"h1">>
    /\ interactions = <<>> /\ pc = <<>> /\ frame = <<>> /\ mq = <<>> /\ waiters = <<>> /\ fitOn = <<>>
    /\ last = NoStep

ScorerNext ==
    \/ \E rec \in ScorerRecords, n \in BlockSizes : ScorerAdd(rec, n)
    \/ ScorerCall

SpecScorer == ScorerInit /\ [][ScorerNext]_vars

---------------------------------------------------------------------------
(* model.js under the event loop.  Trainers call trainModel, analyzers     *)
(* call analyzeInteractions, and content batches extend the vocabulary.    *)

Trainers == {"t1", "t2"}
Analyzers == {"a1"}
Calls == Trainers \cup Analyzers

WINDOW == 100

\* interactions.slice(-100)
RecentWindow(arr) == SubSeq(arr, Max(1, Len(arr) - WINDOW + 1), Len(arr))

\* a record as recordInteraction writes it, and one as
\* recordTimeSpentOnCurrentPost writes it for an item not yet acted on
LikedOn(t) == [topics |-> <<t>>, hashtags |-> <<"h1">>, liked |-> TRUE,
               interested |-> FALSE, not_interested |-> FALSE, commented |-> FALSE]
DislikedOn(t) == [topics |-> <<t>>, hashtags |-> <<"h1">>, liked |-> FALSE,
                  interested |-> FALSE, not_interested |-> TRUE, commented |-> FALSE]
ViewedOnly == [timeSpentMs |-> 9000]

\* the interactions arrays callers pass
Catalogue ==
    << Repeat(LikedOn("A"), MIN_INTERACTIONS - 1),
       Repeat(LikedOn("A"), MIN_INTERACTIONS) \o Repeat(DislikedOn("B"), 2),
       Repeat(ViewedOnly, MIN_INTERACTIONS) >>

\* content items of the feed: item i carries the first i topics
Post(i) == [id |-> i,
            topics |-> [j \in 1..i |-> TopicNames[j]],
            hashtags |-> [j \in 1..Min(i - 1, MaxHashtags) |-> HashtagNames[j]]]
Batches == {<<Post(i)>> : i \in 1..MaxTopics}

\* a set that lists a new element first
RECURSIVE AddAllInFront(_, _)
AddAllInFront(seen, arr) ==
    IF arr = <<>> THEN seen
    ELSE AddAllInFront(IF \E i \in DOMAIN seen : seen[i] = Head(arr) THEN seen
                       ELSE <<Head(arr)>> \o seen,
                       Tail(arr))

\* Set.prototype.add for every element of arr, in order
RECURSIVE AddAll(_, _)
AddAll(seen, arr) ==
    IF arr = <<>> THEN seen
    ELSE AddAll(IF \E i \in DOMAIN seen : seen[i] = Head(arr) THEN seen
                ELSE Append(seen, Head(arr)),
                Tail(arr))

RECURSIVE SeenAfter(_, _, _)
SeenAfter(seen, postsBatch, field) ==
    IF postsBatch = <<>> THEN seen
    ELSE SeenAfter(AddAll(seen, ArrayOf(Head(postsBatch), field)), Tail(postsBatch), field)

\* seenTopics and seenHashtags hold what MODEL_TOPICS and MODEL_HASHTAGS list
updateSeenTopicsAndHashtags(postsBatch) ==
    /\ MODEL_TOPICS' = SeenAfter(MODEL_TOPICS, postsBatch, "topics")
    /\ MODEL_HASHTAGS' = SeenAfter(MODEL_HASHTAGS, postsBatch, "hashtags")

InFlightAt == {"awaitLoad", "awaitFit", "fitRejected"}
InFlight(t) == pc[t] \in InFlightAt
NoFrame == [k |-> 0]

\* what lines 31-56 leave in tfModel: the compiled model, or, when
\* construction throws, the previous object (disposed) or a partial one
BuiltModel == [status |-> "built", dim |-> Len(MODEL_TOPICS)]
BrokenModel == [status |-> "broken", dim |-> 0]
FailedBuilds == IF tfModel.status = "null" THEN {NullModel, BrokenModel} ELSE {BrokenModel}

\* the body of loadModel after its await; built tells whether construction
\* succeeded.  Every path that replaces the model clears modelTrained.
loadModelBody(force, built) ==
    IF tfModel.status = "null" \/ force
    THEN /\ IF Len(MODEL_TOPICS) = 0 THEN tfModel' = NullModel
            ELSE IF built THEN tfModel' = BuiltModel
            ELSE tfModel' \in FailedBuilds
         /\ modelTrained' = FALSE
         /\ fitOn' = [c \in DOMAIN fitOn |-> FALSE]
    ELSE UNCHANGED <<tfModel, modelTrained, fitOn>>

\* loadModel would suspend on the training promise
MustAwaitTraining == modelTraining /\ modelTrainingPromise # "null"

\* a finally block that clears the flag and never resolves the promise
FinallyUnresolved(t, queue) ==
    /\ modelTraining' = FALSE
    /\ modelTrainingPromise' = "null"
    /\ mq' = queue
    /\ waiters' = waiters

\* the finally block of trainModel: the callers awaiting the promise of
\* call t become microtasks, behind those already in `queue`
FinallyBlock(t, queue) ==
    /\ modelTraining' = FALSE
    /\ modelTrainingPromise' = "null"
    /\ mq' = queue \o waiters[t]
    /\ waiters' = [waiters EXCEPT ![t] = <<>>]

TrainReturn(t, outcome) ==
    [op |-> "trainReturn", call |-> t, outcome |-> outcome,
     given |-> frame[t].k, buildThrew |-> frame[t].buildThrew]

\* lines 65 and 67
TrainGuard(arr) == modelTraining \/ Len(MODEL_TOPICS) = 0
\* a trainModel without the minimum-interaction check of line 67
NoMinimum(arr) == FALSE
BelowMinimum(arr) == Len(arr) < MIN_INTERACTIONS

\* trainModel up to its first await (lines 64-70)
TrainCall(t, k) ==
    /\ pc[t] = "idle"
    /\ IF TrainGuard(Catalogue[k]) \/ BelowMinimum(Catalogue[k])
       THEN /\ last' = [op |-> "trainReturn", call |-> t,
                        outcome |-> IF TrainGuard(Catalogue[k]) THEN "guard" ELSE "below",
                        given |-> k, buildThrew |-> FALSE]
            /\ UNCHANGED <<modelVars, pc, frame, mq, waiters, fitOn>>
       ELSE \E built \in BOOLEAN :
            /\ loadModelBody(TRUE, built)
            /\ pc' = [pc EXCEPT ![t] = "awaitLoad"]
            /\ frame' = [frame EXCEPT ![t] = [k |-> k, buildThrew |-> ~built]]
            /\ mq' = Append(mq, t)
            /\ last' = [op |-> "trainCall", call |-> t]
            /\ UNCHANGED <<modelTraining, modelTrainingPromise, waiters>>
    /\ UNCHANGED <<vocabVars, interactions, countVars, scorerVars, splitVars, serverVars, viewVars, idleVars>>

\* rows of xs: the records of the window that have a topics array
FeatureRows(arr) ==
    Cardinality({i \in DOMAIN RecentWindow(arr) : "topics" \in DOMAIN RecentWindow(arr)[i]})

\* trainModel from the return of loadModel to the await of tfModel.fit
\* (lines 71-103); fit throws at once on no model, and rejects on a model
\* that is not a compiled model of the width of xs
TrainResume(t) ==
    /\ pc[t] = "awaitLoad"
    /\ mq # <<>> /\ Head(mq) = t
    /\ IF FeatureRows(Catalogue[frame[t].k]) > 0 /\ Len(MODEL_TOPICS) > 0
       THEN IF tfModel.status = "null"
            THEN /\ modelTrained' = FALSE
                 /\ FinallyBlock(t, Tail(mq))
                 /\ pc' = [pc EXCEPT ![t] = "idle"]
                 /\ frame' = [frame EXCEPT ![t] = NoFrame]
                 /\ last' = TrainReturn(t, "threw")
                 /\ UNCHANGED <<tfModel, fitOn>>
            ELSE /\ modelTraining' = TRUE
                 /\ modelTrainingPromise' = t
                 /\ IF tfModel.status = "broken" \/ tfModel.dim # Len(MODEL_TOPICS)
                    THEN /\ pc' = [pc EXCEPT ![t] = "fitRejected"]
                         /\ mq' = Append(Tail(mq), t)
                         /\ UNCHANGED fitOn
                    ELSE /\ pc' = [pc EXCEPT ![t] = "awaitFit"]
                         /\ mq' = Tail(mq)
                         /\ fitOn' = [fitOn EXCEPT ![t] = TRUE]
                 /\ last' = [op |-> "fitStart", call |-> t]
                 /\ UNCHANGED <<tfModel, modelTrained, frame, waiters>>
       ELSE /\ FinallyBlock(t, Tail(mq))
            /\ pc' = [pc EXCEPT ![t] = "idle"]
            /\ frame' = [frame EXCEPT ![t] = NoFrame]
            /\ last' = TrainReturn(t, "degenerate")
            /\ UNCHANGED <<tfModel, modelTrained, fitOn>>
    /\ UNCHANGED <<vocabVars, interactions, countVars, scorerVars, splitVars, serverVars, viewVars, idleVars>>

\* the rejection of tfModel.fit reaches the catch block (lines 114-120)
TrainFitRejected(t) ==
    /\ pc[t] = "fitRejected"
    /\ mq # <<>> /\ Head(mq) = t
    /\ modelTrained' = FALSE
    /\ FinallyBlock(t, Tail(mq))
    /\ pc' = [pc EXCEPT ![t] = "idle"]
    /\ frame' = [frame EXCEPT ![t] = NoFrame]
    /\ last' = TrainReturn(t, "threw")
    /\ UNCHANGED <<tfModel, fitOn>>
    /\ UNCHANGED <<vocabVars, interactions, countVars, scorerVars, splitVars, serverVars, viewVars, idleVars>>

\* tfModel.fit settles (lines 103-120): a task of its own
TrainFitDone(t, ok) ==
    /\ pc[t] = "awaitFit"
    /\ mq = <<>>
    /\ modelTrained' = ok
    /\ tfModel' = IF ok /\ fitOn[t] THEN [tfModel EXCEPT !.status = "fitted"] ELSE tfModel
    /\ fitOn' = [fitOn EXCEPT ![t] = FALSE]
    /\ FinallyBlock(t, <<>>)
    /\ pc' = [pc EXCEPT ![t] = "idle"]
    /\ frame' = [frame EXCEPT ![t] = NoFrame]
    /\ last' = TrainReturn(t, IF ok THEN "fitted" ELSE "threw")
    /\ UNCHANGED <<vocabVars, interactions, countVars, scorerVars, splitVars, serverVars, viewVars, idleVars>>

\* the short-circuit without the interaction count
ShortCircuitVocabularyOnly(arr) == Len(MODEL_TOPICS) = 0
\* lines 126-127
ShortCircuit(arr) == Len(MODEL_TOPICS) = 0 \/ Len(arr) < MIN_INTERACTIONS

AnalyzeReturn(a, k, path, predicted, result) ==
    [op |-> "analyzeReturn", call |-> a, given |-> k, path |-> path,
     predicted |-> predicted, result |-> result]

\* analyzeInteractions up to its first await (lines 124-129 and 20-24)
AnalyzeCall(a, k) ==
    /\ pc[a] = "idle"
    /\ IF ShortCircuit(Catalogue[k])
       THEN /\ last' = AnalyzeReturn(a, k, "empty", FALSE, EmptyInterestSet)
            /\ UNCHANGED <<modelVars, pc, frame, mq, waiters, fitOn>>
       ELSE IF ~modelTrained
       THEN /\ last' = AnalyzeReturn(a, k, "rules", FALSE, analyzeWithoutModel(Catalogue[k]))
            /\ UNCHANGED <<modelVars, pc, frame, mq, waiters, fitOn>>
       ELSE IF MustAwaitTraining
       THEN /\ pc' = [pc EXCEPT ![a] = "awaitTraining"]
            /\ frame' = [frame EXCEPT ![a] = [k |-> k]]
            /\ waiters' = [waiters EXCEPT ![modelTrainingPromise] = Append(@, a)]
            /\ last' = [op |-> "analyzeCall", call |-> a]
            /\ UNCHANGED <<modelVars, mq, fitOn>>
       ELSE \E built \in BOOLEAN :
            /\ loadModelBody(FALSE, built)
            /\ pc' = [pc EXCEPT ![a] = "awaitLoad"]
            /\ frame' = [frame EXCEPT ![a] = [k |-> k]]
            /\ mq' = Append(mq, a)
            /\ last' = [op |-> "analyzeCall", call |-> a]
            /\ UNCHANGED <<modelTraining, modelTrainingPromise, waiters>>
    /\ UNCHANGED <<vocabVars, interactions, countVars, scorerVars, splitVars, serverVars, viewVars, idleVars>>

\* P(positive) - P(negative) of one prediction, in hundredths
PredWeights == {-40, 5, 12, 60}

Predicted(vocabulary, w) ==
    [i \in DOMAIN vocabulary |-> [name |-> vocabulary[i], weight |-> Frac(w[i], 100)]]

\* tfModel.predict accepts the input: a live model of the input's width
CanPredict == tfModel.status \in {"built", "fitted"} /\ tfModel.dim = Len(MODEL_TOPICS)

\* loadModel(false) resumes once the training promise is resolved (lines
\* 25-57) and returns to analyzeInteractions
AnalyzeLoadResume(a) ==
    /\ \E built \in BOOLEAN : loadModelBody(FALSE, built)
    /\ pc' = [pc EXCEPT ![a] = "awaitLoad"]
    /\ mq' = Append(Tail(mq), a)
    /\ last' = [op |-> "loadResume", call |-> a]
    /\ UNCHANGED <<modelTraining, modelTrainingPromise, frame, waiters>>

\* analyzeInteractions from the return of loadModel to its own return
\* (lines 130-161).  The call throws when predict does; tf.tensor2d of no
\* rows (an empty hashtag vocabulary) may throw too.
AnalyzePredict(a) ==
    /\ mq' = Tail(mq)
    /\ pc' = [pc EXCEPT ![a] = "idle"]
    /\ frame' = [frame EXCEPT ![a] = NoFrame]
    /\ IF ~CanPredict
       THEN last' = AnalyzeReturn(a, frame[a].k, "threw", tfModel.status # "null", EmptyInterestSet)
       ELSE \/ /\ MODEL_HASHTAGS = <<>>
               /\ last' = AnalyzeReturn(a, frame[a].k, "threw", TRUE, EmptyInterestSet)
            \/ \E tw \in [DOMAIN MODEL_TOPICS -> PredWeights],
                  hw \in [DOMAIN MODEL_HASHTAGS -> PredWeights] :
                  last' = AnalyzeReturn(a, frame[a].k, "model", TRUE,
                            [topics |-> ClassifierSelect(Predicted(MODEL_TOPICS, tw)),
                             hashtags |-> ClassifierSelect(Predicted(MODEL_HASHTAGS, hw))])
    /\ UNCHANGED <<modelVars, waiters, fitOn>>

\* the microtask of a suspended analyzeInteractions call.  No call is ever
\* suspended on the training promise: modelTrained is set only by the step
\* that clears modelTraining, and every later trainModel clears modelTrained
\* before it sets modelTraining.
AnalyzeResume(a) ==
    /\ pc[a] \in {"awaitTraining", "awaitLoad"}
    /\ mq # <<>> /\ Head(mq) = a
    /\ IF pc[a] = "awaitTraining" THEN AnalyzeLoadResume(a) ELSE AnalyzePredict(a)
    /\ UNCHANGED <<vocabVars, interactions, countVars, scorerVars, splitVars, serverVars, viewVars, idleVars>>

\* a content batch arrives: the response of the fetch is a task of its own
UpdateVocabulary(postsBatch) ==
    /\ mq = <<>>
    /\ updateSeenTopicsAndHashtags(postsBatch)
    /\ <<MODEL_TOPICS', MODEL_HASHTAGS'>> # <<MODEL_TOPICS, MODEL_HASHTAGS>>
    /\ last' = [op |-> "batch"]
    /\ UNCHANGED <<modelVars, interactions, pc, frame, mq, waiters, fitOn>>
    /\ UNCHANGED <<countVars, scorerVars, splitVars, serverVars, viewVars, idleVars>>

Init ==
    /\ InitModel /\ InitVocab /\ InitCounts /\ InitScorer /\ InitSplit
    /\ InitServer /\ InitView /\ InitIdle
    /\ interactions = <<>>
    /\ pc = [c \in Calls |-> "idle"]
    /\ frame = [c \in Calls |-> NoFrame]
    /\ mq = <<>>
    /\ waiters = [t \in Trainers |-> <<>>]
    /\ fitOn = [t \in Trainers |-> FALSE]
    /\ last = NoStep

Next ==
    \/ \E t \in Trainers, k \in DOMAIN Catalogue : TrainCall(t, k)
    \/ \E t \in Trainers : TrainResume(t)
    \/ \E t \in Trainers : TrainFitRejected(t)
    \/ \E t \in Trainers, ok \in BOOLEAN : TrainFitDone(t, ok)
    \/ \E a \in Analyzers, k \in DOMAIN Catalogue : AnalyzeCall(a, k)
    \/ \E a \in Analyzers : AnalyzeResume(a)
    \/ \E b \in Batches : UpdateVocabulary(b)

Spec == Init /\ [][Next]_vars

---------------------------------------------------------------------------
(* trainModel of model.js with callers of the exported loadModel, and the  *)
(* scheduling of the event loop: a pending microtask is run, and a         *)
(* tfModel.fit that has been started settles and its completion is run.    *)
(* analyzeInteractions reaches loadModel only when modelTrained is true,   *)
(* which is never the case while modelTraining is (AnalyzeResume), so the  *)
(* callers that can be suspended on the promise are those of loadModel.    *)

Loaders == {"l1"}
LiveCalls == Trainers \cup Loaders

\* loadModel(force) called by caller code, up to its await (lines 20-24) or,
\* when it does not suspend, to its return
LoadCall(l, force) ==
    /\ pc[l] = "idle"
    /\ IF MustAwaitTraining
       THEN /\ pc' = [pc EXCEPT ![l] = "awaitTraining"]
            /\ frame' = [frame EXCEPT ![l] = [k |-> 0, force |-> force]]
            /\ waiters' = [waiters EXCEPT ![modelTrainingPromise] = Append(@, l)]
            /\ last' = [op |-> "loadCall", call |-> l]
            /\ UNCHANGED <<modelVars, mq, fitOn>>
       ELSE /\ \E built \in BOOLEAN : loadModelBody(force, built)
            /\ last' = [op |-> "loadReturn", call |-> l, waited |-> FALSE]
            /\ UNCHANGED <<modelTraining, modelTrainingPromise, pc, frame, mq, waiters>>
    /\ UNCHANGED <<vocabVars, interactions, countVars, scorerVars, splitVars, serverVars, viewVars, idleVars>>

\* the training promise is resolved: loadModel runs on to its return (lines 25-61)
LoadResume(l) ==
    /\ pc[l] = "awaitTraining"
    /\ mq # <<>> /\ Head(mq) = l
    /\ \E built \in BOOLEAN : loadModelBody(frame[l].force, built)
    /\ pc' = [pc EXCEPT ![l] = "idle"]
    /\ frame' = [frame EXCEPT ![l] = NoFrame]
    /\ mq' = Tail(mq)
    /\ last' = [op |-> "loadReturn", call |-> l, waited |-> TRUE]
    /\ UNCHANGED <<modelTraining, modelTrainingPromise, waiters>>
    /\ UNCHANGED <<vocabVars, interactions, countVars, scorerVars, splitVars, serverVars, viewVars, idleVars>>

LiveInit ==
    /\ InitModel /\ InitVocab /\ InitCounts /\ InitScorer /\ InitSplit
    /\ InitServer /\ InitView /\ InitIdle
    /\ interactions = <<>>
    /\ pc = [c \in LiveCalls |-> "idle"]
    /\ frame = [c \in LiveCalls |-> NoFrame]
    /\ mq = <<>>
    /\ waiters = [t \in Trainers |-> <<>>]
    /\ fitOn = [t \in Trainers |-> FALSE]
    /\ last = NoStep

LiveNext ==
    \/ \E t \in Trainers, k \in DOMAIN Catalogue : TrainCall(t, k)
    \/ \E t \in Trainers : TrainResume(t)
    \/ \E t \in Trainers : TrainFitRejected(t)
    \/ \E t \in Trainers, ok \in BOOLEAN : TrainFitDone(t, ok)
    \/ \E l \in Loaders, force \in BOOLEAN : LoadCall(l, force)
    \/ \E l \in Loaders : LoadResume(l)
    \/ \E b \in Batches : UpdateVocabulary(b)

\* microtasks are run in order as soon as the running code returns; the
\* completion of a fit is a task the event loop gets to
LiveFairness ==
    /\ \A t \in Trainers : WF_vars(TrainResume(t))
    /\ \A t \in Trainers : WF_vars(TrainFitRejected(t))
    /\ \A t \in Trainers : SF_vars(\E ok \in BOOLEAN : TrainFitDone(t, ok))
    /\ \A l \in Loaders : WF_vars(LoadResume(l))

SpecLive == LiveInit /\ [][LiveNext]_vars /\ LiveFairness

---------------------------------------------------------------------------
(* mainbackup.js under the event loop: the retrain triggers call           *)
(* trainModel(interactions) on the session's interaction store.            *)

\* the idle-timer callback (line 177), recordInteraction on the last post
\* of the batch (line 460) and the patched loadBatch (line 414)
Triggers == {"idleTimer", "recordInteraction", "loadBatch"}

MB_MIN_INTERACTIONS == 5

Unfinished(g) == pc[g] # "idle"
RECURSIVE CallsOf(_)
CallsOf(S) ==
    IF S = {} THEN 0
    ELSE LET g == CHOOSE x \in S : TRUE IN frame[g].calls + CallsOf(S \ {g})
TotalCalls == CallsOf(Triggers)

\* loadModel(true) past its await (lines 34-44): the vocabulary is not empty
MbRebuild ==
    /\ tfModel' = BuiltModel
    /\ modelTrained' = FALSE
    /\ fitOn' = [c \in DOMAIN fitOn |-> FALSE]

\* the finally block (lines 95-98): it releases the waiters, and its
\* renderModelStatus, finding modelTraining false, calls analyzeInteractions,
\* whose loadModel(true) replaces the model before the first await
MbFinally(g, queue) ==
    /\ modelTraining' = FALSE
    /\ modelTrainingPromise' = "null"
    /\ waiters' = [waiters EXCEPT ![g] = <<>>]
    /\ mq' = Append(queue \o waiters[g], g)
    /\ MbRebuild
    /\ pc' = [pc EXCEPT ![g] = "renderLoad"]

\* trainModel up to its first await (lines 47-50 and 29-33).  A trigger is
\* a timer callback or an event handler: a task, run once no microtask is left
MbTrainCall(g) ==
    /\ pc[g] = "idle"
    /\ mq = <<>>
    /\ frame[g].calls < MaxCalls
    /\ frame' = [frame EXCEPT ![g] = [calls |-> @.calls + 1, len |-> Len(interactions),
                                          fitted |-> FALSE]]
    /\ overlapped' = (overlapped \/ \E h \in Triggers \ {g} : Unfinished(h))
    /\ last' = [op |-> "trainCall", call |-> g]
    /\ IF Len(MODEL_TOPICS) = 0
       THEN UNCHANGED <<modelVars, pc, mq, waiters, fitOn, rebuildCount>>
       ELSE IF MustAwaitTraining
       THEN /\ pc' = [pc EXCEPT ![g] = "awaitTraining"]
            /\ waiters' = [waiters EXCEPT ![modelTrainingPromise] = Append(@, g)]
            /\ UNCHANGED <<modelVars, mq, fitOn, rebuildCount>>
       ELSE /\ MbRebuild
            /\ rebuildCount' = rebuildCount + 1
            /\ pc' = [pc EXCEPT ![g] = "awaitLoad"]
            /\ mq' = Append(mq, g)
            /\ UNCHANGED <<modelTraining, modelTrainingPromise, waiters>>
    /\ UNCHANGED <<vocabVars, interactions, fitCount, scorerVars, splitVars, serverVars, viewVars, idleVars>>

\* loadModel(true) resumes once the training it awaited is over (lines 34-44)
MbLoadResume(g) ==
    /\ MbRebuild
    /\ rebuildCount' = rebuildCount + 1
    /\ pc' = [pc EXCEPT ![g] = "awaitLoad"]
    /\ mq' = Append(Tail(mq), g)
    /\ UNCHANGED <<modelTraining, modelTrainingPromise, waiters, fitCount>>

\* lines 51-55: the threshold, the training flag and the first renderModelStatus
MbTrainBegin(g) ==
    IF frame[g].len < MB_MIN_INTERACTIONS
    THEN /\ pc' = [pc EXCEPT ![g] = "idle"]
         /\ mq' = Tail(mq)
         /\ UNCHANGED <<modelVars, waiters, fitOn, fitCount, rebuildCount>>
    ELSE /\ modelTraining' = TRUE
         /\ modelTrainingPromise' = g
         /\ pc' = [pc EXCEPT ![g] = "awaitRender"]
         /\ mq' = Append(Tail(mq), g)
         /\ UNCHANGED <<tfModel, modelTrained, waiters, fitOn, fitCount, rebuildCount>>

\* lines 56-89: the feature rows and the call of tfModel.fit, which rejects
\* when the model is not of the width of the rows
MbTrainFit(g) ==
    /\ fitCount' = fitCount + 1
    /\ IF CanPredict
       THEN /\ pc' = [pc EXCEPT ![g] = "awaitFit"]
            /\ mq' = Tail(mq)
            /\ fitOn' = [fitOn EXCEPT ![g] = TRUE]
       ELSE /\ pc' = [pc EXCEPT ![g] = "fitRejected"]
            /\ mq' = Append(Tail(mq), g)
            /\ UNCHANGED fitOn
    /\ UNCHANGED <<modelVars, waiters, rebuildCount>>

\* the rejection of tfModel.fit runs the finally block; nothing catches it
MbFitRejected(g) ==
    /\ MbFinally(g, Tail(mq))
    /\ UNCHANGED <<fitCount, rebuildCount>>

\* renderModelStatus and its analyzeInteractions finish, and trainModel returns
MbRenderDone(g) ==
    /\ pc' = [pc EXCEPT ![g] = "idle"]
    /\ mq' = Tail(mq)
    /\ UNCHANGED <<modelVars, waiters, fitOn, fitCount, rebuildCount>>

\* the microtask of a suspended trainModel call
MbTrainResume(g) ==
    /\ Unfinished(g) /\ pc[g] # "awaitFit"
    /\ mq # <<>> /\ Head(mq) = g
    /\ CASE pc[g] = "awaitTraining" -> MbLoadResume(g)
         [] pc[g] = "awaitLoad" -> MbTrainBegin(g)
         [] pc[g] = "awaitRender" -> MbTrainFit(g)
         [] pc[g] = "fitRejected" -> MbFitRejected(g)
         [] pc[g] = "renderLoad" -> MbRenderDone(g)
    /\ last' = [op |-> "trainResume", call |-> g, at |-> pc[g]]
    /\ UNCHANGED <<vocabVars, interactions, frame, overlapped, scorerVars, splitVars, serverVars, viewVars, idleVars>>

\* tfModel.fit settles (lines 89-98): modelTrained is set on success, and
\* the finally block follows in the same step
MbTrainFitDone(g, ok) ==
    /\ pc[g] = "awaitFit"
    /\ mq = <<>>
    /\ MbFinally(g, <<>>)
    /\ frame' = [frame EXCEPT ![g].fitted = ok]
    /\ last' = [op |-> "fitDone", call |-> g, ok |-> ok]
    /\ UNCHANGED <<vocabVars, interactions, countVars, scorerVars, splitVars, serverVars, viewVars, idleVars>>

\* a session that has recorded some interactions; no content seen yet
MainInit ==
    /\ InitModel /\ InitVocab /\ InitCounts /\ InitScorer /\ InitSplit
    /\ InitServer /\ InitView /\ InitIdle
    /\ interactions \in {Repeat(LikedOn("A"), n) :
                            n \in {MB_MIN_INTERACTIONS - 1, MB_MIN_INTERACTIONS}}
    /\ pc = [g \in Triggers |-> "idle"]
    /\ frame = [g \in Triggers |-> [calls |-> 0, len |-> 0, fitted |-> FALSE]]
    /\ mq = <<>>
    /\ waiters = [g \in Triggers |-> <<>>]
    /\ fitOn = [g \in Triggers |-> FALSE]
    /\ last = NoStep

MainNext ==
    \/ \E g \in Triggers : MbTrainCall(g)
    \/ \E g \in Triggers : MbTrainResume(g)
    \/ \E g \in Triggers, ok \in BOOLEAN : MbTrainFitDone(g, ok)
    \/ \E b \in Batches : UpdateVocabulary(b)

SpecMain == MainInit /\ [][MainNext]_vars

---------------------------------------------------------------------------
(* The content-serving boundary: GET /api/posts of server.js.  A request   *)
(* arrives, the handler answers it in one synchronous step, and the        *)
(* connection closes.  The handler keeps no state between requests.        *)
(*                                                                         *)
(* A JavaScript value is a record tagged by t: null, number, string (its   *)
(* characters), array (its items) or object (name and weight).  Names are  *)
(* one character long, so a string includes a name when it holds that      *)
(* character.  Weights and scores are in hundredths.                       *)

DEFAULT_LIMIT == 10
LEGACY_WEIGHT == 100
MaxLimit == 4

\* the candidate pool read from mock_posts_200.json: enough items for the
\* relevance cut at 2 * MaxLimit to leave some out
PoolSize == 2 * MaxLimit + 1
PoolTopics(i) ==
    CASE i % 4 = 0 -> <<"A">>
      [] i % 4 = 1 -> <<"B">>
      [] i % 4 = 2 -> <<"A", "C">>
      [] OTHER -> <<>>
PoolPost(i) ==
    IF i % 4 = 3 THEN [id |-> i, hashtags |-> <<"X">>]
    ELSE [id |-> i, topics |-> PoolTopics(i),
          hashtags |-> IF i % 3 = 0 THEN <<"X">> ELSE <<>>]
Pool == 1..PoolSize

JNull == [t |-> "null"]
JNumber == [t |-> "number"]
JString(chars) == [t |-> "string", chars |-> chars]
JArray(items) == [t |-> "array", items |-> items]
JObject(name, weight) == [t |-> "object", name |-> name, weight |-> weight]

Absent == [kind |-> "absent"]
Text(names) == [kind |-> "text", names |-> names]
Json(value) == [kind |-> "json", value |-> value]

\* values of the limit parameter as parseInt reads them, and of the topics
\* and hashtags parameters
LimitParams ==
    {[kind |-> "NaN"]} \cup {[kind |-> "int", n |-> n] : n \in {-1, 0, 1, 2, MaxLimit}}
TopicParams ==
    { Absent, Text(<<"A">>), Text(<<"A", "B">>),
      Json(JNull), Json(JNumber), Json(JString(<<"A", "B">>)),
      Json(JArray(<<>>)),
      Json(JArray(<<JObject("A", 60)>>)),
      Json(JArray(<<JObject("A", 60), JObject("B", -20)>>)),
      Json(JArray(<<JString(<<"A">>)>>)),
      Json(JArray(<<JString(<<"B">>), JNull>>)),
      Json(JArray(<<JNull>>)) }
HashtagParams ==
    { Absent, Text(<<"X">>),
      Json(JNull), Json(JString(<<"X">>)),
      Json(JArray(<<JObject("X", 50)>>)),
      Json(JArray(<<JString(<<"X">>)>>)),
      Json(JArray(<<JNull>>)) }

\* parseInt(req.query.limit) || 10
EffectiveLimit(l) == IF l.kind = "NaN" \/ l.n = 0 THEN DEFAULT_LIMIT ELSE l.n

\* lines 44-64: JSON.parse of the parameter, and on a syntax error the
\* comma-separated names with weight 1
ParseParam(q) ==
    CASE q.kind = "absent" -> JArray(<<>>)
      [] q.kind = "text" -> JArray([i \in DOMAIN q.names |-> JObject(q.names[i], LEGACY_WEIGHT)])
      [] q.kind = "json" -> q.value

\* v.length is truthy; reading it from null throws
NonEmpty(v) ==
    CASE v.t = "string" -> v.chars # <<>>
      [] v.t = "array" -> v.items # <<>>
      [] OTHER -> FALSE

\* typeof v[0] === 'object'
FirstIsObject(v) == v.t = "array" /\ v.items # <<>> /\ v.items[1].t \in {"object", "null", "array"}

\* the branch lines 67 and 91 choose; "threw" when .length is read from null
Route(ut, uh) ==
    IF ut.t = "null" THEN "threw"
    ELSE IF NonEmpty(ut) /\ FirstIsObject(ut) THEN "weighted"
    ELSE IF uh.t = "null" THEN "threw"
    ELSE IF NonEmpty(uh) /\ FirstIsObject(uh) THEN "weighted"
    ELSE IF NonEmpty(ut) \/ NonEmpty(uh) THEN "names"
    ELSE "unfiltered"

\* v.map(t => [t.name, t.weight]) throws when v has no map or holds a null
WeightMapThrows(v) == v.t # "array" \/ \E i \in DOMAIN v.items : v.items[i].t = "null"

\* weightMap[name] || 0, the map built by Object.fromEntries: the last
\* entry of a name wins
WeightOf(v, name) ==
    LET at == {i \in DOMAIN v.items : v.items[i].t = "object" /\ v.items[i].name = name}
    IN IF at = {} THEN 0
       ELSE v.items[CHOOSE i \in at : \A j \in at : j <= i].weight

\* lines 73-79
PostScore(post, ut, uh) ==
      SumSeq([k \in DOMAIN ArrayOf(post, "topics") |-> WeightOf(ut, post.topics[k])])
    + SumSeq([k \in DOMAIN ArrayOf(post, "hashtags") |-> WeightOf(uh, post.hashtags[k])])

\* lines 72-82: the pool sorted by descending score
Ranked(ut, uh) ==
    SortDesc([i \in Pool |-> [post |-> i, weight |-> Frac(PostScore(PoolPost(i), ut, uh), 100)]])

\* lines 83-84 with the cut at k in place of limit * 2
CoreUpTo(ut, uh, k) ==
    LET top == Slice(Ranked(ut, uh), k)
    IN {top[j].post : j \in DOMAIN top}
WeightedCore(ut, uh, limit) == CoreUpTo(ut, uh, limit * 2)

\* userTopics.includes(t.name || t)
Includes(v, name) ==
    CASE v.t = "string" -> \E i \in DOMAIN v.chars : v.chars[i] = name
      [] v.t = "array" -> \E i \in DOMAIN v.items : v.items[i] = JString(<<name>>)
      [] OTHER -> FALSE

\* lines 93-97
NameMatch(post, ut, uh) ==
    \/ NonEmpty(ut) /\ \E k \in DOMAIN ArrayOf(post, "topics") : Includes(ut, post.topics[k])
    \/ NonEmpty(uh) /\ \E k \in DOMAIN ArrayOf(post, "hashtags") : Includes(uh, post.hashtags[k])
NamedCore(ut, uh) == {i \in Pool : NameMatch(PoolPost(i), ut, uh)}

\* Math.floor(limit * 0.3)
NoiseCount(limit) == (3 * limit) \div 10

\* .sort(() => 0.5 - Math.random()).slice(0, n): some n elements of S
Drawn(S, n) == {D \in SUBSET S : Cardinality(D) = SliceCount(Cardinality(S), n)}

\* noise candidates taken from the whole pool
AnyPost(core) == Pool
\* posts.filter(post => !filtered.includes(post)), lines 87 and 100
NoiseCandidates(core) == Pool \ core
\* filtered.concat(noise): a list may hold a post more than once, so lists
\* are kept as bags where their order does not matter
Concat(core, noise) == SetToBag(core) (+) SetToBag(noise)
\* shuffled.slice(0, n), lines 107-108
DrawnFrom(list, n) ==
    {B \in SubBag(list) : BagCardinality(B) = SliceCount(BagCardinality(list), n)}

ServerReceive(l, qt, qh) ==
    /\ ~srvReq.received
    /\ srvReq' = [received |-> TRUE, limit |-> l, topics |-> qt, hashtags |-> qh]
    /\ UNCHANGED srvRes
    /\ UNCHANGED <<modelVars, vocabVars, procVars, countVars, scorerVars, splitVars, viewVars, idleVars>>

Threw == [sent |-> TRUE, status |-> "threw"]
Answer(path, limit, core, noise, batch) ==
    [sent |-> TRUE, status |-> "ok", path |-> path, limit |-> limit,
     total |-> PoolSize, core |-> core, noise |-> noise, posts |-> batch]

\* the handler, lines 38-114
ServerRespond ==
    /\ srvReq.received /\ ~srvRes.sent
    /\ LET limit == EffectiveLimit(srvReq.limit)
           ut == ParseParam(srvReq.topics)
           uh == ParseParam(srvReq.hashtags)
           path == Route(ut, uh)
       IN CASE path = "threw" -> srvRes' = Threw
            [] path = "weighted" ->
                 IF WeightMapThrows(ut) \/ WeightMapThrows(uh) THEN srvRes' = Threw
                 ELSE LET core == WeightedCore(ut, uh, limit)
                      IN \E noise \in Drawn(NoiseCandidates(core), NoiseCount(limit)) :
                           \E batch \in DrawnFrom(Concat(core, noise), limit) :
                             srvRes' = Answer(path, limit, core, noise, batch)
            [] path = "names" ->
                 LET core == NamedCore(ut, uh)
                 IN \E noise \in Drawn(NoiseCandidates(core), NoiseCount(limit)) :
                      \E batch \in DrawnFrom(Concat(core, noise), limit) :
                        srvRes' = Answer(path, limit, core, noise, batch)
            [] path = "unfiltered" ->
                 \E batch \in DrawnFrom(SetToBag(Pool), limit) :
                    srvRes' = Answer(path, limit, Pool, {}, batch)
    /\ UNCHANGED srvReq
    /\ UNCHANGED <<modelVars, vocabVars, procVars, countVars, scorerVars, splitVars, viewVars, idleVars>>

\* the response is delivered and the next request may arrive
ServerDone ==
    /\ srvRes.sent
    /\ srvReq' = NoRequest
    /\ srvRes' = NoResponse
    /\ UNCHANGED <<modelVars, vocabVars, procVars, countVars, scorerVars, splitVars, viewVars, idleVars>>

ServerInit ==
    /\ InitModel /\ InitVocab /\ InitCounts /\ InitScorer /\ InitSplit
    /\ InitServer /\ InitView /\ InitIdle
    /\ interactions = <<>> /\ pc = <<>> /\ frame = <<>> /\ mq = <<>> /\ waiters = <<>> /\ fitOn = <<>>
    /\ last = NoStep

ServerNext ==
    \/ \E l \in LimitParams, qt \in TopicParams, qh \in HashtagParams : ServerReceive(l, qt, qh)
    \/ ServerRespond
    \/ ServerDone

SpecServer == ServerInit /\ [][ServerNext]_vars

---------------------------------------------------------------------------
(* The interaction store of mainbackup.js: the object `interactions`, one  *)
(* record per key, written by the like and comment buttons, by             *)
(* recordInteraction and by recordTimeSpentOnCurrentPost.  One event       *)
(* happens per unit of time; Date.now() is the same throughout a handler.  *)
(* An absent id is the JavaScript value undefined, which as a property key *)
(* is the string "undefined".                                              *)

\* the content items of the batch on display: two ordinary items, one
\* without an id field and one whose id is the empty string
Feed == <<[id |-> "p1", topics |-> <<"A">>, hashtags |-> <<"x">>],
          [id |-> "p2", topics |-> <<"B", "A">>, hashtags |-> <<>>],
          [topics |-> <<"C">>, hashtags |-> <<"y">>],
          [id |-> "", topics |-> <<"B">>, hashtags |-> <<"x">>]>>

\* post.id, as a value and as a property key
IdOf(post) == IF "id" \in DOMAIN post THEN post.id ELSE "undefined"
\* the truth value of an id (or of null)
Truthy(id) == id \notin {"", "undefined", "null"}

Has(st, key) == key \in DOMAIN st
Put(st, key, rec) == [k \in DOMAIN st \cup {key} |-> IF k = key THEN rec ELSE st[k]]
WithField(rec, f, v) == [x \in DOMAIN rec \cup {f} |-> IF x = f THEN v ELSE rec[x]]
TimeSpentOf(rec) == IF "timeSpentMs" \in DOMAIN rec THEN rec.timeSpentMs ELSE 0

\* the record the like button, the comment button and recordInteraction
\* create for a post that has none
FullRecord(post, now) ==
    [postId |-> IdOf(post), topics |-> post.topics, hashtags |-> post.hashtags,
     liked |-> FALSE, interested |-> FALSE, not_interested |-> FALSE,
     commented |-> FALSE, timestamp |-> now]
Ensure(st, post, now) ==
    IF Has(st, IdOf(post)) THEN st ELSE Put(st, IdOf(post), FullRecord(post, now))

\* the record recordTimeSpentOnCurrentPost creates (lines 294-298)
MinimalRecord(id, spent, now) == [postId |-> id, timeSpentMs |-> spent, timestamp |-> now]

\* recordTimeSpentOnCurrentPost (lines 288-306), as the store it leaves
recordTimeSpentOnCurrentPost(st, now) ==
    IF Truthy(lastViewedPostId) /\ postViewStartTime # 0
    THEN LET spent == now - postViewStartTime IN
         IF ~Has(st, lastViewedPostId)
         THEN Put(st, lastViewedPostId, MinimalRecord(lastViewedPostId, spent, now))
         ELSE Put(st, lastViewedPostId,
                  WithField(st[lastViewedPostId], "timeSpentMs",
                            TimeSpentOf(st[lastViewedPostId]) + spent))
    ELSE st

\* the item on display from this event to the next stays there for the
\* unit of time that passes
OnDisplay(i) ==
    displayed' = IF i = 0 THEN displayed ELSE [displayed EXCEPT ![i] = @ + 1]

StoreIdle == UNCHANGED <<modelVars, vocabVars, pc, frame, mq, waiters, fitOn,
                         countVars, scorerVars, splitVars, serverVars>>

\* line 172, in units of 5 seconds
IDLE_TIME_MS == 2

\* resetIdleTimer (lines 174-179): clearTimeout on a handle that has fired
\* or is null does nothing
resetIdleTimer(now) ==
    /\ pendingTimers' = (pendingTimers \ {idleTimeout}) \cup {now + IDLE_TIME_MS}
    /\ idleTimeout' = now + IDLE_TIME_MS

\* showPost(idx) (lines 308-321) on a batch that needs no reload
ShowPost(i) ==
    /\ clock < MaxClock
    /\ pc = "idle"
    /\ resetIdleTimer(clock)
    /\ lastActivity' = clock
    /\ interactions' = recordTimeSpentOnCurrentPost(interactions, clock)
    /\ shown' = i
    /\ postViewStartTime' = clock
    /\ lastViewedPostId' = IdOf(Feed[i])
    /\ clock' = clock + 1
    /\ OnDisplay(i)
    /\ last' = [op |-> "showPost", post |-> i, at |-> clock]
    /\ StoreIdle

\* nextPost and prevPost (lines 323-338) moving inside the batch: each calls
\* recordTimeSpentOnCurrentPost and then showPost, which calls it again
Navigate(i) ==
    /\ clock < MaxClock
    /\ pc = "idle"
    /\ shown # 0
    /\ i # shown
    /\ resetIdleTimer(clock)
    /\ lastActivity' = clock
    /\ interactions' = recordTimeSpentOnCurrentPost(
                           recordTimeSpentOnCurrentPost(interactions, clock), clock)
    /\ shown' = i
    /\ postViewStartTime' = clock
    /\ lastViewedPostId' = IdOf(Feed[i])
    /\ clock' = clock + 1
    /\ OnDisplay(i)
    /\ last' = [op |-> "navigate", post |-> i, at |-> clock]
    /\ StoreIdle

\* the like button of the item on display (lines 261-269)
LikeClick ==
    /\ clock < MaxClock
    /\ shown # 0
    /\ LET post == Feed[shown]
           st == Ensure(interactions, post, clock)
           rec == st[IdOf(post)]
       IN interactions' = Put(st, IdOf(post),
              WithField(WithField(rec, "liked", ~Flag(rec, "liked")), "timestamp", clock))
    /\ clock' = clock + 1
    /\ OnDisplay(shown)
    /\ last' = [op |-> "like", post |-> shown]
    /\ UNCHANGED <<shown, lastViewedPostId, postViewStartTime, idleVars>>
    /\ StoreIdle

\* the comment button of the item on display (lines 272-281)
CommentClick ==
    /\ clock < MaxClock
    /\ shown # 0
    /\ LET post == Feed[shown]
           st == Ensure(interactions, post, clock)
           rec == st[IdOf(post)]
       IN interactions' =
              IF Flag(rec, "commented") THEN st
              ELSE Put(st, IdOf(post),
                       WithField(WithField(rec, "commented", TRUE), "timestamp", clock))
    /\ clock' = clock + 1
    /\ OnDisplay(shown)
    /\ last' = [op |-> "comment", post |-> shown]
    /\ UNCHANGED <<shown, lastViewedPostId, postViewStartTime, idleVars>>
    /\ StoreIdle

\* a recordInteraction that sets the flag of the button pressed and leaves
\* the other flag as it was
MarkedOnly(rec, type) ==
    IF type \in {"interested", "not_interested"} THEN WithField(rec, type, TRUE) ELSE rec

\* lines 443-449: the button pressed sets its flag and clears the other
Marked(rec, type) ==
    IF type = "interested"
    THEN WithField(WithField(rec, "interested", TRUE), "not_interested", FALSE)
    ELSE IF type = "not_interested"
    THEN WithField(WithField(rec, "not_interested", TRUE), "interested", FALSE)
    ELSE rec

\* recordInteraction(type, post) (lines 426-463) from the Interested and
\* Not Interested buttons of the item on display.  Its trainModel call
\* reads the store and is the recordInteraction trigger of SpecMain.  The
\* buttons stay in use while a reload is awaited.
RecordInteraction(type) ==
    /\ clock < MaxClock
    /\ shown # 0
    /\ LET post == Feed[shown]
           key == IdOf(post)
           st == Ensure(interactions, post, clock)
           marked == Marked(st[key], type)
           timed == lastViewedPostId = key /\ postViewStartTime # 0
           spent == IF timed
                    THEN WithField(marked, "timeSpentMs",
                                   TimeSpentOf(marked) + (clock - postViewStartTime))
                    ELSE marked
       IN IF ~Truthy(key)
          THEN UNCHANGED <<interactions, postViewStartTime, idleTimeout, pendingTimers>>
          ELSE /\ interactions' = Put(st, key, WithField(spent, "timestamp", clock))
               /\ postViewStartTime' = IF timed THEN clock ELSE postViewStartTime
               /\ resetIdleTimer(clock)
    /\ lastActivity' = clock
    /\ clock' = clock + 1
    /\ OnDisplay(shown)
    /\ last' = [op |-> type, post |-> shown, at |-> clock]
    /\ UNCHANGED <<shown, lastViewedPostId>>
    /\ StoreIdle

\* the page has loaded and the store is empty (line 170)
StoreInit ==
    /\ InitModel /\ InitVocab /\ InitCounts /\ InitScorer /\ InitSplit
    /\ InitServer /\ InitView /\ InitIdle
    /\ interactions = <<>> /\ pc = "idle" /\ frame = <<>> /\ mq = <<>> /\ waiters = <<>> /\ fitOn = <<>>
    /\ last = NoStep

StoreNext ==
    \/ \E i \in DOMAIN Feed : ShowPost(i)
    \/ \E i \in DOMAIN Feed : Navigate(i)
    \/ LikeClick
    \/ CommentClick
    \/ \E type \in {"interested", "not_interested"} : RecordInteraction(type)

SpecStore == StoreInit /\ [][StoreNext]_vars

---------------------------------------------------------------------------
(* The idle timer of mainbackup.js: the session of SpecStore with the      *)
(* passing of quiet time, the timer's callback, and showPost on a batch    *)
(* that has to be reloaded (lines 310-313), which awaits loadBatch before  *)
(* it displays the item and resets the timer.  No navigation is started    *)
(* while a reload is awaited.                                              *)

\* time passes with no event; a timer that is due may fire late
Tick ==
    /\ clock < MaxClock
    /\ clock' = clock + 1
    /\ OnDisplay(shown)
    /\ last' = [op |-> "tick"]
    /\ UNCHANGED <<interactions, shown, lastViewedPostId, postViewStartTime, idleVars>>
    /\ StoreIdle

\* the callback of a timer that is due (lines 176-178): it calls
\* trainModel(interactions), the idleTimer trigger of SpecMain
IdleFire ==
    /\ \E due \in pendingTimers :
          /\ due <= clock
          /\ pendingTimers' = pendingTimers \ {due}
    /\ last' = [op |-> "idleFire", at |-> clock]
    /\ UNCHANGED <<interactions, viewVars, idleTimeout, lastActivity, pc>>
    /\ UNCHANGED <<modelVars, vocabVars, frame, mq, waiters, fitOn, countVars,
                   scorerVars, splitVars, serverVars>>

\* showPost(idx) up to `await loadBatch()` (lines 308-311)
ShowPostBegin ==
    /\ clock < MaxClock
    /\ pc = "idle"
    /\ shown # 0
    /\ interactions' = recordTimeSpentOnCurrentPost(interactions, clock)
    /\ pc' = "loading"
    /\ lastActivity' = clock
    /\ clock' = clock + 1
    /\ OnDisplay(shown)
    /\ last' = [op |-> "showPostBegin", at |-> clock]
    /\ UNCHANGED <<shown, lastViewedPostId, postViewStartTime, idleTimeout, pendingTimers>>
    /\ UNCHANGED <<modelVars, vocabVars, frame, mq, waiters, fitOn, countVars,
                   scorerVars, splitVars, serverVars>>

\* showPost(idx) after loadBatch has returned (lines 312-318)
ShowPostEnd(i) ==
    /\ clock < MaxClock
    /\ pc = "loading"
    /\ pc' = "idle"
    /\ shown' = i
    /\ postViewStartTime' = clock
    /\ lastViewedPostId' = IdOf(Feed[i])
    /\ resetIdleTimer(clock)
    /\ lastActivity' = clock
    /\ clock' = clock + 1
    /\ OnDisplay(i)
    /\ last' = [op |-> "showPost", post |-> i, at |-> clock]
    /\ UNCHANGED interactions
    /\ UNCHANGED <<modelVars, vocabVars, frame, mq, waiters, fitOn, countVars,
                   scorerVars, splitVars, serverVars>>

IdleNext ==
    \/ \E i \in DOMAIN Feed : ShowPost(i)
    \/ \E i \in DOMAIN Feed : Navigate(i)
    \/ LikeClick
    \/ CommentClick
    \/ \E type \in {"interested", "not_interested"} : RecordInteraction(type)
    \/ Tick
    \/ IdleFire
    \/ ShowPostBegin
    \/ \E i \in DOMAIN Feed : ShowPostEnd(i)

SpecIdle == StoreInit /\ [][IdleNext]_vars

---------------------------------------------------------------------------
(* The vocabulary on its own: content batches of any shape are passed to   *)
(* updateSeenTopicsAndHashtags.  An item lists its topics in any order,    *)
(* may repeat one, and may have no topics or hashtags field at all.        *)

NamesUpTo(S, n) == UNION {[1..k -> S] : k \in 0..n}
VocabPosts ==
    {[topics |-> t, hashtags |-> h] : t \in NamesUpTo(Topics, 2), h \in NamesUpTo(Hashtags, 1)}
        \cup {[id |-> 0]}
OneTopicPosts == {[topics |-> <<t>>, hashtags |-> <<>>] : t \in Topics}
VocabBatches ==
    {<<p>> : p \in VocabPosts} \cup {<<p, q>> : p \in OneTopicPosts, q \in OneTopicPosts}

\* loadBatch (lines 220-222): batch = data.posts; updateSeenTopicsAndHashtags(batch)
ReceiveBatch(postsBatch) ==
    /\ updateSeenTopicsAndHashtags(postsBatch)
    /\ last' = [op |-> "batch", batch |-> postsBatch]
    /\ UNCHANGED <<modelVars, interactions, pc, frame, mq, waiters, fitOn>>
    /\ UNCHANGED <<countVars, scorerVars, splitVars, serverVars, viewVars, idleVars>>

VocabInit ==
    /\ InitModel /\ InitVocab /\ InitCounts /\ InitScorer /\ InitSplit
    /\ InitServer /\ InitView /\ InitIdle
    /\ interactions = <<>> /\ pc = <<>> /\ frame = <<>> /\ mq = <<>> /\ waiters = <<>> /\ fitOn = <<>>
    /\ last = NoStep

VocabNext == \E b \in VocabBatches : ReceiveBatch(b)

SpecVocab == VocabInit /\ [][VocabNext]_vars

---------------------------------------------------------------------------
(* The training window on a long session: the store holds WINDOW records   *)
(* when the model starts, the like button creates and updates records, and *)
(* trainModel takes its window.  The store is the list Object.values       *)
(* gives: a record stays at the position of its key when it is updated,    *)
(* and a record under a new key goes to the end.                           *)

MaxUpdates == 3       \* events after the store has reached WINDOW records

\* one record per content item, created by the like button at times 1 .. WINDOW
LongStore ==
    [i \in 1..WINDOW |->
        [postId |-> i, topics |-> <<"A">>, hashtags |-> <<>>, liked |-> TRUE,
         interested |-> FALSE, not_interested |-> FALSE, commented |-> FALSE,
         timestamp |-> i]]

\* positions whose record the user comes back to
Revisited == {1, 2, WINDOW}

WindowIdle == UNCHANGED <<modelVars, vocabVars, pc, frame, mq, waiters, fitOn, countVars,
                          scorerVars, splitVars, serverVars, shown, lastViewedPostId,
                          postViewStartTime, displayed, idleVars>>

\* the like button on an item that has a record (lines 264-265 of mainbackup.js)
WindowLikeAgain(i) ==
    /\ clock <= WINDOW + MaxUpdates
    /\ i \in DOMAIN interactions
    /\ interactions' = [interactions EXCEPT ![i].liked = ~interactions[i].liked,
                                            ![i].timestamp = clock]
    /\ clock' = clock + 1
    /\ last' = [op |-> "like", post |-> i]
    /\ WindowIdle

\* the like button on an item that has no record (lines 263-265)
WindowLikeNew ==
    /\ clock <= WINDOW + MaxUpdates
    /\ interactions' = Append(interactions,
           [postId |-> clock, topics |-> <<"B">>, hashtags |-> <<>>, liked |-> TRUE,
            interested |-> FALSE, not_interested |-> FALSE, commented |-> FALSE,
            timestamp |-> clock])
    /\ clock' = clock + 1
    /\ last' = [op |-> "like", post |-> clock]
    /\ WindowIdle

\* trainModel computes recentInteractions (line 73 of model.js, line 58 of
\* mainbackup.js)
WindowTrain ==
    /\ last' = [op |-> "window", recentInteractions |-> RecentWindow(interactions)]
    /\ UNCHANGED <<interactions, clock>>
    /\ WindowIdle

WindowInit ==
    /\ InitModel /\ InitVocab /\ InitCounts /\ InitScorer /\ InitSplit /\ InitServer
    /\ InitIdle
    /\ shown = 0 /\ lastViewedPostId = "null" /\ postViewStartTime = 0
    /\ displayed = <<0, 0, 0, 0>>
    /\ clock = WINDOW + 1
    /\ interactions = LongStore
    /\ pc = <<>> /\ frame = <<>> /\ mq = <<>> /\ waiters = <<>> /\ fitOn = <<>>
    /\ last = NoStep

WindowNext ==
    \/ \E i \in Revisited : WindowLikeAgain(i)
    \/ WindowLikeNew
    \/ WindowTrain

SpecWindow == WindowInit /\ [][WindowNext]_vars

---------------------------------------------------------------------------
(* Claims about mainbackup.js, checked under SpecMain *)

\* C2: when two retrain triggers each call trainModel and the second call is
\* made before the first has completed, one model rebuild and one
\* tfModel.fit are executed in total.
C2_TriggersCoalesce ==
    (/\ TotalCalls = 2
     /\ overlapped
     /\ Len(interactions) >= MB_MIN_INTERACTIONS
     /\ \A g \in Triggers : ~Unfinished(g))
    => fitCount = 1 /\ rebuildCount = 1

---------------------------------------------------------------------------
(* Claims about model.js, checked under Spec *)

\* C1: at most one call of trainModel is between passing the entry guard and
\* finishing its finally block.
C1_AtMostOneTrainingRun == Cardinality({t \in Trainers : InFlight(t)}) <= 1

PredictRan == last.op = "analyzeReturn" /\ last.predicted

\* C3: every tfModel.predict of analyzeInteractions runs when no training
\* run is in flight and on a model for which a fit has finished successfully.
C3_PredictOnlyAfterTraining ==
    PredictRan => /\ \A t \in Trainers : ~InFlight(t)
                  /\ tfModel.status = "fitted"

\* C4: whenever analyzeInteractions runs classifier inference, MODEL_TOPICS
\* is the vocabulary the model was built on: the input vector length equals
\* the model's input dimension.
C4_PredictOnTrainingVocabulary ==
    (PredictRan /\ tfModel.status = "fitted") => tfModel.dim = Len(MODEL_TOPICS)

TrainingFailed ==
    /\ last.op = "trainReturn"
    /\ last.outcome \in {"threw", "degenerate"} \/ last.buildThrew

\* C5: a trainModel call in which model construction or tfModel.fit throws,
\* or whose window has no record with a topics array, returns with
\* modelTrained false, modelTraining false and modelTrainingPromise null.
C5_FailedTrainingLeavesUntrained ==
    TrainingFailed => /\ ~modelTrained
                      /\ ~modelTraining
                      /\ modelTrainingPromise = "null"

\* C6: analyzeInteractions returns an InterestSet with empty topics and
\* empty hashtags whenever it is given fewer than MIN_INTERACTIONS records
\* or the vocabulary is empty, whatever the classifier state, and leaves
\* the model untouched.
C6_ShortCircuitReturnsEmpty ==
    [][(/\ last'.op = "analyzeReturn"
        /\ Len(Catalogue[last'.given]) < MIN_INTERACTIONS \/ Len(MODEL_TOPICS) = 0)
       => /\ last'.result = EmptyInterestSet
          /\ ~last'.predicted
          /\ UNCHANGED <<modelVars, pc, mq, waiters>>]_vars

\* a trained classifier asked to analyze nine records
C6_Witness ==
    /\ last.op = "analyzeReturn"
    /\ Len(Catalogue[last.given]) < MIN_INTERACTIONS
    /\ modelTrained /\ tfModel.status = "fitted"
    /\ Len(MODEL_TOPICS) > 0

WellFormedSelection(entries) ==
    /\ \A i \in DOMAIN entries : FLess(Tenth, entries[i].weight)
    /\ \A i \in DOMAIN entries, j \in DOMAIN entries :
          i < j => /\ ~FLess(entries[i].weight, entries[j].weight)
                   /\ entries[i].name # entries[j].name

C7_RuleWitness ==
    /\ last.op = "analyzeReturn" /\ last.path = "rules"
    /\ Len(last.result.topics) >= 1

---------------------------------------------------------------------------
(* Claims about the Rule-Based Scorer, checked under SpecScorer *)

HasReactionFlag(inter) ==
    \/ Flag(inter, "liked") \/ Flag(inter, "interested")
    \/ Flag(inter, "not_interested") \/ Flag(inter, "commented")

\* C8: in analyzeWithoutModel the reaction score of a record with at least
\* one of liked, interested, not_interested, commented set is the weighted
\* sum of its set flags, whatever its timeSpentMs and duration.
C8_FlaggedScoreIgnoresTime ==
    scOut.called =>
        \A i \in DOMAIN scOut.given :
            HasReactionFlag(scOut.given[i])
                => scOut.scores[i] = FlagScore(scOut.given[i])

OnlyFlag(inter, f) ==
    \A g \in {"liked", "interested", "not_interested", "commented"} :
        Flag(inter, g) <=> g = f

\* n >= 10 records liked on topic a, m >= 10 records not_interested on topic
\* b, and nothing else
IsLikedDislikedInput(arr, a, b) ==
    /\ a # b
    /\ \A i \in DOMAIN arr :
          \/ OnlyFlag(arr[i], "liked") /\ ArrayOf(arr[i], "topics") = <<a>>
          \/ OnlyFlag(arr[i], "not_interested")
                /\ ArrayOf(arr[i], "topics") = <<b>>
    /\ Cardinality({i \in DOMAIN arr : OnlyFlag(arr[i], "liked")})
          >= MIN_INTERACTIONS
    /\ Cardinality({i \in DOMAIN arr : OnlyFlag(arr[i], "not_interested")})
          >= MIN_INTERACTIONS

WeightsOf(entries, name) == {entries[k].weight : k \in {j \in DOMAIN entries : entries[j].name = name}}
NamesOf(entries) == {entries[k].name : k \in DOMAIN entries}

\* C9: for n >= 10 liked records on topic a and m >= 10 not_interested
\* records on topic b, the Rule-Based Scorer gives a a positive weight and b
\* a negative one, and its InterestSet lists a and not b.
C9_LikedInDislikedOut ==
    scOut.called =>
        \A a \in ScorerTopics, b \in ScorerTopics :
            IsLikedDislikedInput(scOut.given, a, b) =>
                /\ \A w \in WeightsOf(scOut.weights, a) : FLess(Zero, w)
                /\ \A w \in WeightsOf(scOut.weights, b) : FLess(w, Zero)
                /\ WeightsOf(scOut.weights, a) # {} /\ WeightsOf(scOut.weights, b) # {}
                /\ a \in NamesOf(scOut.result.topics)
                /\ b \notin NamesOf(scOut.result.topics)

\* a call on 11 liked records on A, some with a short viewing time, and on
\* not_interested records on B with a long viewing time
C9_Witness ==
    /\ scOut.called
    /\ IsLikedDislikedInput(scOut.given, "A", "B")
    /\ Len(scOut.given) > 2 * MIN_INTERACTIONS
    /\ \E i \in DOMAIN scOut.given :
          /\ Flag(scOut.given[i], "not_interested")
          /\ TimeBonus(scOut.given[i]) > 0

---------------------------------------------------------------------------
(* Claims about the Natural-Break Selector, checked under SpecSplit *)

ExampleWeights == <<90, 85, 30, 28>>
IsExample(items) ==
    /\ Len(items) = Len(ExampleWeights)
    /\ \A i \in DOMAIN items : items[i].weight = Frac(ExampleWeights[i], 100)

---------------------------------------------------------------------------
(* Claims about GET /api/posts, checked under SpecServer *)

Answered == srvRes.sent /\ srvRes.status = "ok"

\* C11: the number of posts returned is min(limit, size of the combined
\* relevant and noise list), for every limit and every interest set.
C11_ReturnsMinLimitAvailable ==
    Answered =>
        BagCardinality(srvRes.posts)
            = Min(srvRes.limit, BagCardinality(Concat(srvRes.core, srvRes.noise)))

ScoreOf(i) == PostScore(PoolPost(i), ParseParam(srvReq.topics), ParseParam(srvReq.hashtags))

\* T holds the n best-scored candidates
IsTopByScore(T, n) ==
    /\ Cardinality(T) = Max(0, Min(n, PoolSize))
    /\ \A i \in T, j \in Pool \ T : ScoreOf(i) >= ScoreOf(j)

\* C12: on the weighted path the relevant set is the top 2 * limit
\* candidates by score, every returned post outside it is a noise item, and
\* at most floor(limit * 0.3) returned posts are outside it.
C12_OutsideTopIsNoise ==
    (Answered /\ srvRes.path = "weighted") =>
        /\ IsTopByScore(srvRes.core, 2 * srvRes.limit)
        /\ BagToSet(srvRes.posts) \ srvRes.core \subseteq srvRes.noise
        /\ Cardinality(BagToSet(srvRes.posts) \ srvRes.core) <= NoiseCount(srvRes.limit)

LegacyNames(q) == IF q.kind = "text" THEN {q.names[k] : k \in DOMAIN q.names} ELSE {}
IsLegacyRequest ==
    /\ srvReq.received
    /\ {srvReq.topics.kind, srvReq.hashtags.kind} \subseteq {"absent", "text"}
    /\ "text" \in {srvReq.topics.kind, srvReq.hashtags.kind}
ExactMatches ==
    {i \in Pool :
        \/ \E k \in DOMAIN ArrayOf(PoolPost(i), "topics") :
              PoolPost(i).topics[k] \in LegacyNames(srvReq.topics)
        \/ \E k \in DOMAIN ArrayOf(PoolPost(i), "hashtags") :
              PoolPost(i).hashtags[k] \in LegacyNames(srvReq.hashtags)}

\* C13: for topics or hashtags given as a comma-separated name list the
\* relevant set before noise injection is the set of candidates with a
\* topic or hashtag among the names, on the name-matching path.
C13_LegacyNamesExactMatch ==
    (Answered /\ IsLegacyRequest) =>
        /\ srvRes.path = "names"
        /\ srvRes.core = ExactMatches

\* C14: whatever the topics and hashtags parameters hold, the handler ends
\* with a posts response and not with an exception.
C14_HandlerNeverThrows == srvRes.sent => srvRes.status = "ok"

\* C25: every batch returned holds no post twice and only posts of the
\* pool, and the relevant set and the noise set are disjoint.
C25_BatchHasNoDuplicates ==
    Answered =>
        /\ \A p \in BagToSet(srvRes.posts) : p \in Pool /\ CopiesIn(p, srvRes.posts) = 1
        /\ srvRes.core \cap srvRes.noise = {}

\* a batch of the weighted path that mixes relevant posts and noise
C25_Witness ==
    /\ Answered
    /\ srvRes.path = "weighted"
    /\ BagToSet(srvRes.posts) \cap srvRes.noise # {}
    /\ BagToSet(srvRes.posts) \cap srvRes.core # {}
    /\ BagCardinality(srvRes.posts) = MaxLimit

---------------------------------------------------------------------------
(* Claims about the interaction store, checked under SpecStore *)

Records == {interactions[k] : k \in DOMAIN interactions}

\* C15: no record of the store has interested and not_interested both true,
\* after any sequence of events.
C15_FlagsExclusive ==
    \A rec \in Records : ~(Flag(rec, "interested") /\ Flag(rec, "not_interested"))

\* recordInteraction has just marked not interested a liked record on which
\* it had already recorded time
C15_Witness ==
    /\ last.op = "not_interested"
    /\ \E rec \in Records :
          /\ Flag(rec, "not_interested")
          /\ TimeSpentOf(rec) >= 2
          /\ Flag(rec, "liked")

ButtonEvents == {"like", "comment", "interested", "not_interested"}
HasNoId(i) == i # 0 /\ ~Truthy(IdOf(Feed[i]))

\* C17: an interaction event (like, interested, not_interested, comment, or
\* the time-spent recording made when the item is left) on a content item
\* whose id is missing or empty leaves the interaction store unchanged.
C17_IdlessEventsIgnored ==
    [][/\ (last'.op \in ButtonEvents /\ HasNoId(shown)) => interactions' = interactions
       /\ (last'.op \in {"showPost", "navigate"} /\ HasNoId(shown))
              => interactions' = interactions]_vars

\* C20: every record of the store carries the topics and the hashtags of
\* its content item, whichever event created it and whatever events follow.
C20_RecordsCarryTopics ==
    \A k \in DOMAIN interactions :
        \E i \in DOMAIN Feed :
            /\ IdOf(Feed[i]) = k
            /\ "topics" \in DOMAIN interactions[k]
            /\ "hashtags" \in DOMAIN interactions[k]
            /\ interactions[k].topics = Feed[i].topics
            /\ interactions[k].hashtags = Feed[i].hashtags

\* C26: the timeSpentMs accumulated for an item is non-negative and never
\* exceeds the total time that item has been on display.
C26_TimeSpentWithinDisplayTime ==
    \A k \in DOMAIN interactions :
        /\ TimeSpentOf(interactions[k]) >= 0
        /\ \A i \in DOMAIN Feed :
              IdOf(Feed[i]) = k => TimeSpentOf(interactions[k]) <= displayed[i]

---------------------------------------------------------------------------
(* Claims about the vocabulary, checked under SpecVocab *)

IsPrefix(a, b) == Len(a) <= Len(b) /\ SubSeq(b, 1, Len(a)) = a

\* C16: across any sequence of content batches the vocabulary only grows:
\* MODEL_TOPICS and MODEL_HASHTAGS before a batch are a prefix of their
\* values after it, so every name seen before keeps its position.
C16_VocabularyOnlyGrows ==
    [][/\ IsPrefix(MODEL_TOPICS, MODEL_TOPICS')
       /\ IsPrefix(MODEL_HASHTAGS, MODEL_HASHTAGS')]_vars

\* the last batch held an item that lists the third name of the vocabulary
\* before the first one
C16_Witness ==
    /\ last.op = "batch"
    /\ Len(MODEL_TOPICS) >= 3
    /\ MODEL_HASHTAGS # <<>>
    /\ ArrayOf(last.batch[1], "topics") = <<MODEL_TOPICS[3], MODEL_TOPICS[1]>>

---------------------------------------------------------------------------
(* Claims about trainModel of model.js, checked under Spec *)

\* C18: a trainModel call made with fewer than MIN_INTERACTIONS records is
\* a no-op on classifier state: tfModel, modelTrained, modelTraining and
\* modelTrainingPromise are unchanged on return.
C18_ShortCallIsNoOp ==
    [][(last'.op = "trainReturn" /\ Len(Catalogue[last'.given]) < MIN_INTERACTIONS)
           => UNCHANGED modelVars]_vars

\* a call with too few records has returned and the model trained before
\* it is still trained
C18_Witness ==
    /\ last.op = "trainReturn"
    /\ last.outcome = "below"
    /\ Len(Catalogue[last.given]) = MIN_INTERACTIONS - 1
    /\ modelTrained
    /\ tfModel.status = "built"

---------------------------------------------------------------------------
(* Claims about the largest gap, checked under SpecSplit *)

GapAt(items, i) == FSub(At(items, i).weight, At(items, i + 1).weight)
RelativeGapExceeds(items, i, f) == QuotientExceeds(GapAt(items, i), At(items, i).weight, f)
ScanPositions(items) == 0 .. (Min(Len(items) - 1, SCAN_LIMIT) - 1)
\* the positions up to the first one whose relative gap exceeds 0.6
Scanned(items) ==
    {i \in ScanPositions(items) :
        \A j \in ScanPositions(items) : RelativeGapExceeds(items, j, Frac(6, 10)) => i <= j}
\* gap > max(0.1, 0.25 * weight_0), or gap / weight_i > 0.4
Qualifies(items, i) ==
    \/ FLess(GapThreshold(items, "weight"), GapAt(items, i))
    \/ RelativeGapExceeds(items, i, Frac(4, 10))
QualifyingScanned(items) == {i \in Scanned(items) : Qualifies(items, i)}

\* C19: for a sorted list of more than 3 entries with at least one
\* qualifying gap among the first 10 positions, findNaturalSplit returns one
\* past the position of the largest qualifying gap among the positions it
\* scanned.
C19_SplitAfterLargestGap ==
    (/\ spOut.called
     /\ Len(spOut.items) > 3
     /\ \E i \in ScanPositions(spOut.items) : Qualifies(spOut.items, i))
    => \E p \in QualifyingScanned(spOut.items) :
          /\ spOut.splitIdx = p + 1
          /\ \A q \in QualifyingScanned(spOut.items) :
                ~FLess(GapAt(spOut.items, p), GapAt(spOut.items, q))

---------------------------------------------------------------------------
(* Claims about the training window, checked under SpecWindow *)

\* C21: when the store holds more than 100 records, the training window is
\* the 100 most recently updated records: it has 100 records, and no record
\* in it has an older last update than a record left out.
C21_WindowIsMostRecentlyUpdated ==
    (last.op = "window" /\ Len(interactions) > WINDOW)
    => /\ Len(last.recentInteractions) = WINDOW
       /\ \A i \in DOMAIN interactions :
             (\A j \in DOMAIN last.recentInteractions :
                 last.recentInteractions[j].postId # interactions[i].postId)
             => \A j \in DOMAIN last.recentInteractions :
                   last.recentInteractions[j].timestamp >= interactions[i].timestamp

---------------------------------------------------------------------------
(* Claims about the end of training, checked under SpecLive *)

\* C22: given that tfModel.fit terminates, whenever modelTraining is true it
\* is eventually false, and every caller suspended in loadModel on the
\* training promise is eventually resumed.
C22_TrainingEndsWaitersResume ==
    /\ modelTraining ~> ~modelTraining
    /\ \A c \in LiveCalls :
          (pc[c] = "awaitTraining") ~> (pc[c] # "awaitTraining")

\* a loadModel call that waited for the training promise has returned while
\* another trainModel call is still fitting
C22_Witness ==
    /\ last.op = "loadReturn"
    /\ last.waited
    /\ \E t \in Trainers : pc[t] = "awaitFit"

---------------------------------------------------------------------------
(* Claims about the idle timer, checked under SpecIdle *)

ActivityEvents == {"interested", "not_interested", "showPost", "navigate", "showPostBegin"}

\* C23: at most one idle timer is pending at any time; the idle-triggered
\* trainModel call happens only when IDLE_TIME_MS has elapsed with no
\* recordInteraction and no showPost; every such event cancels the pending
\* timer and arms a new one.
C23_IdleTimerQuietPeriod ==
    /\ Cardinality(pendingTimers) <= 1
    /\ last.op = "idleFire" => last.at - lastActivity >= IDLE_TIME_MS
    /\ last.op \in ActivityEvents => pendingTimers = {last.at + IDLE_TIME_MS}

---------------------------------------------------------------------------
(* Claims about the trained state in mainbackup.js, checked under SpecMain *)

\* C24: once a trainModel call has completed a successful fit, modelTrained
\* is true and tfModel is the fitted model when that call returns, no other
\* retrain request being in progress.
C24_TrainedStateKept ==
    (/\ last.op = "trainResume"
     /\ last.at = "renderLoad"
     /\ frame[last.call].fitted
     /\ \A g \in Triggers : ~Unfinished(g))
    => modelTrained /\ tfModel.status = "fitted"

====
